---- MODULE Spec2Model ----
(***************************************************************************)
(* A model of the Heteras Discord bot, src/main.py.                        *)
(*                                                                         *)
(* Text is modelled as a sequence of one-character strings, so that        *)
(* slicing, case mapping, substring search, replacement and concatenation  *)
(* are computed the way the Python code computes them.  Characters         *)
(* outside ASCII are written by name: "I." is U+0130 (capital I with dot), *)
(* "i-" is U+0131 (dotless small i), "S," / "s," are U+015E / U+015F and   *)
(* "G^" / "g^" are U+011E / U+011F.                                        *)
(*                                                                         *)
(* Every handler is one action per stretch of code that runs without       *)
(* giving up the event loop in a way another handler can observe: mute is  *)
(* three steps (up to the add_roles request, its completion, the expiry of *)
(* the sleep), remindme two.  A platform call is taken to succeed unless   *)
(* the code itself has a branch for its failure (discord.Forbidden on      *)
(* create_role and on the private message, a missing channel, the          *)
(* exceptions predict_image and addquote catch).  The optional reason of   *)
(* mute only travels into the audit log and the reply text and is left     *)
(* out.  `out` is the list of platform calls made by the last step.        *)
(***************************************************************************)
EXTENDS Integers, Sequences, FiniteSets, TLC

\* ------------------------------------------------------------- bounds
\* Longest duration string of the single-command parser specification.
MaxLen == 3
\* Number of mute / remindme tasks that may be in flight at once.
MaxTasks == 2

VARIABLES
    cmd,              \* the one invocation of a single-command specification
    welcome_configs,  \* guild id -> [channel_id, message]
    goodbye_configs,  \* guild id -> [channel_id, message]
    quotes,           \* list of quote strings
    channels,         \* channel ids bot.get_channel still resolves
    labels,           \* class names, index-aligned with the model's outputs
    role_exists,      \* the guild has a role named "Muted"
    muted,            \* members holding the Muted role
    tasks,            \* the mute / remindme coroutines in flight
    out               \* platform calls made by the last step

vars == <<cmd, welcome_configs, goodbye_configs, quotes, channels, labels,
          role_exists, muted, tasks, out>>

\* ------------------------------------------------------------- text
Max(a, b) == IF a >= b THEN a ELSE b

Min(a, b) == IF a <= b THEN a ELSE b

Digits == {"0", "1", "2", "3", "4", "5", "6", "7", "8", "9"}

DigitVal(c) ==
    CASE c = "0" -> 0 [] c = "1" -> 1 [] c = "2" -> 2 [] c = "3" -> 3
      [] c = "4" -> 4 [] c = "5" -> 5 [] c = "6" -> 6 [] c = "7" -> 7
      [] c = "8" -> 8 [] c = "9" -> 9

\* str.lower() of one character.
LowerPairs ==
    [A |-> "a", B |-> "b", C |-> "c", D |-> "d", H |-> "h", M |-> "m",
     S |-> "s", X |-> "x"]

LowerChar(c) == IF c \in DOMAIN LowerPairs THEN LowerPairs[c] ELSE c

RECURSIVE LStrip(_)
LStrip(s) == IF s # <<>> /\ Head(s) = " " THEN LStrip(Tail(s)) ELSE s

RECURSIVE RStrip(_)
RStrip(s) ==
    IF s # <<>> /\ s[Len(s)] = " " THEN RStrip(SubSeq(s, 1, Len(s) - 1)) ELSE s

\* The digit part of an integer literal: digits, single underscores between.
DigitGroup(b) ==
    /\ b # <<>>
    /\ b[1] \in Digits
    /\ b[Len(b)] \in Digits
    /\ \A i \in 1..Len(b) :
          /\ b[i] \in Digits \cup {"_"}
          /\ (i < Len(b) /\ b[i] = "_") => b[i + 1] # "_"

RECURSIVE DigitsValue(_)
DigitsValue(b) ==
    IF b = <<>> THEN 0
    ELSE LET front == SubSeq(b, 1, Len(b) - 1)
             last == b[Len(b)]
         IN IF last = "_" THEN DigitsValue(front)
            ELSE 10 * DigitsValue(front) + DigitVal(last)

\* int(s): surrounding blanks stripped, an optional sign, a digit group;
\* anything else raises ValueError (ok = FALSE).
PyInt(s) ==
    LET t == RStrip(LStrip(s))
        signed == t # <<>> /\ t[1] \in {"+", "-"}
        body == IF signed THEN Tail(t) ELSE t
    IN IF DigitGroup(body)
       THEN [ok |-> TRUE,
             val |-> IF signed /\ t[1] = "-" THEN 0 - DigitsValue(body)
                     ELSE DigitsValue(body)]
       ELSE [ok |-> FALSE, val |-> 0]

\* ------------------------------------------------------------- durations
time_units == [s |-> 1, m |-> 60, h |-> 3600, d |-> 86400]

\* time_units.get(unit, 0)
UnitSeconds(unit) == IF unit \in DOMAIN time_units THEN time_units[unit] ELSE 0

\* (mutant) mute's parser without the test for a zero product.
MuteSecondsNoZeroTest(duration) ==
    LET unit == LowerChar(duration[Len(duration)])
        amount == PyInt(SubSeq(duration, 1, Len(duration) - 1))
    IN IF amount.ok
       THEN [ok |-> TRUE, seconds |-> amount.val * UnitSeconds(unit)]
       ELSE [ok |-> FALSE, seconds |-> 0]

\* The try block of mute: ok = FALSE is the except branch.
MuteSeconds(duration) ==
    LET unit == LowerChar(duration[Len(duration)])
        amount == PyInt(SubSeq(duration, 1, Len(duration) - 1))
        seconds == amount.val * UnitSeconds(unit)
    IN IF amount.ok /\ seconds # 0
       THEN [ok |-> TRUE, seconds |-> seconds]
       ELSE [ok |-> FALSE, seconds |-> 0]

\* The try block of remindme: ok = FALSE is the except branch.
RemindSeconds(time_str) ==
    LET unit == LowerChar(time_str[Len(time_str)])
        amount == PyInt(SubSeq(time_str, 1, Len(time_str) - 1))
        seconds == amount.val * UnitSeconds(unit)
    IN IF amount.ok /\ seconds # 0
       THEN [ok |-> TRUE, seconds |-> seconds, amount |-> amount.val,
             unit |-> unit]
       ELSE [ok |-> FALSE, seconds |-> 0, amount |-> 0, unit |-> unit]

\* (mutant) the 7-day test off by one second.
ReminderTooLongFromSevenDays(seconds) == seconds >= 86400 * 7

\* if seconds > 86400 * 7
ReminderTooLong(seconds) == seconds > 86400 * 7

\* ------------------------------------------------------------- platform
Members == {"m1", "m2"}

TaskIds == 1..MaxTasks

IdleTask ==
    [pc |-> "idle", kind |-> "none", who |-> "none", arg |-> <<>>,
     seconds |-> 0, remaining |-> 0, message |-> ""]

\* The task record a new coroutine gets: the first one free (any one when none
\* is, and then a command that has to wait is not taken).
Slot ==
    IF \E t \in TaskIds : tasks[t].pc = "idle"
    THEN CHOOSE t \in TaskIds :
            tasks[t].pc = "idle" /\ \A u \in TaskIds : u < t => tasks[u].pc # "idle"
    ELSE 1

\* create_role is only called, and can only be refused, when the role is missing.
CreateOutcomes == IF role_exists THEN {FALSE} ELSE BOOLEAN

\* ctx.send(...)
Say(kind) == [op |-> "send", to |-> "ctx", kind |-> kind]

SayAbout(kind, who, arg) ==
    [op |-> "send", to |-> "ctx", kind |-> kind, who |-> who, arg |-> arg]

StoresUnchanged ==
    UNCHANGED <<welcome_configs, goodbye_configs, quotes, channels, labels>>

\* ------------------------------------------------------------- mute
\* mute up to its first observable suspension: the add_roles request.
mute(t, member, duration, create_forbidden) ==
    /\ StoresUnchanged
    /\ IF duration = <<>>
       THEN /\ out' = <<Say("specify_duration")>>
            /\ UNCHANGED <<role_exists, muted, tasks>>
       ELSE LET p == MuteSeconds(duration) IN
            IF ~p.ok
            THEN /\ out' = <<Say("invalid_duration")>>
                 /\ UNCHANGED <<role_exists, muted, tasks>>
            ELSE IF ~role_exists /\ create_forbidden
            THEN /\ out' = <<Say("role_not_found"), Say("cannot_create_role")>>
                 /\ UNCHANGED <<role_exists, muted, tasks>>
            ELSE LET created == IF role_exists THEN <<>>
                                ELSE <<Say("role_not_found"), Say("role_created")>>
                 IN /\ role_exists' = TRUE
                    /\ UNCHANGED muted
                    /\ IF member \in muted
                       THEN /\ out' = created \o <<SayAbout("already_muted", member, <<>>)>>
                            /\ UNCHANGED tasks
                       ELSE /\ tasks[t].pc = "idle"
                            /\ out' = created
                            /\ tasks' = [tasks EXCEPT ![t] =
                                  [pc |-> "add_roles", kind |-> "mute",
                                   who |-> member, arg |-> duration,
                                   seconds |-> p.seconds,
                                   remaining |-> p.seconds, message |-> ""]]

\* (mutant) time.sleep in place of asyncio.sleep: the handler keeps the event
\* loop for the whole wait and returns only after remove_roles.
mute_added_blocking(t) ==
    /\ tasks[t].pc = "add_roles"
    /\ muted' = muted \ {tasks[t].who}
    /\ out' = <<SayAbout("muted", tasks[t].who, tasks[t].arg),
                SayAbout("mute_lifted", tasks[t].who, <<>>)>>
    /\ tasks' = [tasks EXCEPT ![t] = IdleTask]
    /\ UNCHANGED role_exists
    /\ StoresUnchanged

\* add_roles has completed: the role is on the member, the reply is sent and
\* asyncio.sleep(seconds) begins.
mute_added(t) ==
    /\ tasks[t].pc = "add_roles"
    /\ muted' = muted \cup {tasks[t].who}
    /\ out' = <<SayAbout("muted", tasks[t].who, tasks[t].arg)>>
    /\ tasks' = [tasks EXCEPT ![t].pc = "sleep"]
    /\ UNCHANGED role_exists
    /\ StoresUnchanged

\* (mutant) remove_roles without waiting for the sleep to end.
mute_expired_early(t) ==
    /\ tasks[t].pc = "sleep"
    /\ tasks[t].kind = "mute"
    /\ muted' = muted \ {tasks[t].who}
    /\ out' = <<SayAbout("mute_lifted", tasks[t].who, <<>>)>>
    /\ tasks' = [tasks EXCEPT ![t] = IdleTask]
    /\ UNCHANGED role_exists
    /\ StoresUnchanged

\* The sleep is over: remove_roles and the closing reply.
mute_expired(t) ==
    /\ tasks[t].pc = "sleep"
    /\ tasks[t].kind = "mute"
    /\ tasks[t].remaining <= 0
    /\ muted' = muted \ {tasks[t].who}
    /\ out' = <<SayAbout("mute_lifted", tasks[t].who, <<>>)>>
    /\ tasks' = [tasks EXCEPT ![t] = IdleTask]
    /\ UNCHANGED role_exists
    /\ StoresUnchanged

\* ------------------------------------------------------------- remindme
\* time_str[-1] of an empty string raises IndexError outside the try block,
\* which the command framework hands to remindme_error.
remindme_error == <<Say("error_occurred")>>

\* remindme up to its asyncio.sleep.
remindme(t, author, time_str, reminder_message) ==
    /\ StoresUnchanged
    /\ UNCHANGED <<role_exists, muted>>
    /\ IF time_str = <<>>
       THEN /\ out' = remindme_error
            /\ UNCHANGED tasks
       ELSE LET p == RemindSeconds(time_str) IN
            IF ~p.ok
            THEN /\ out' = <<Say("invalid_duration")>>
                 /\ UNCHANGED tasks
            ELSE IF ReminderTooLong(p.seconds)
            THEN /\ out' = <<Say("max_7_days")>>
                 /\ UNCHANGED tasks
            ELSE /\ tasks[t].pc = "idle"
                 /\ out' = <<[op |-> "send", to |-> "ctx", kind |-> "reminder_set",
                              amount |-> p.amount, unit |-> p.unit,
                              message |-> reminder_message]>>
                 /\ tasks' = [tasks EXCEPT ![t] =
                       [pc |-> "sleep", kind |-> "remind", who |-> author,
                        arg |-> time_str, seconds |-> p.seconds,
                        remaining |-> p.seconds,
                        message |-> reminder_message]]

\* The sleep is over: the private message, or the channel when it is forbidden.
remind_expired(t, dm_forbidden) ==
    /\ tasks[t].pc = "sleep"
    /\ tasks[t].kind = "remind"
    /\ tasks[t].remaining <= 0
    /\ out' = <<[op |-> "send",
                 to |-> IF dm_forbidden THEN "ctx" ELSE "dm",
                 kind |-> "reminder", who |-> tasks[t].who,
                 message |-> tasks[t].message]>>
    /\ tasks' = [tasks EXCEPT ![t] = IdleTask]
    /\ UNCHANGED <<role_exists, muted>>
    /\ StoresUnchanged

\* Time passes until the wake-up time of a sleeping task.
Tick(d) ==
    /\ d > 0
    /\ \E t \in TaskIds : tasks[t].pc = "sleep" /\ tasks[t].remaining = d
    /\ tasks' = [t \in TaskIds |->
                    IF tasks[t].pc = "sleep" /\ tasks[t].remaining > 0
                    THEN [tasks[t] EXCEPT !.remaining = Max(@ - d, 0)]
                    ELSE tasks[t]]
    /\ out' = <<>>
    /\ UNCHANGED <<role_exists, muted>>
    /\ StoresUnchanged

\* ------------------------------------------------------------- initial state
DefaultLabels ==
    <<"CPU", "GPU", "RAM", "Motherboard", "Sata SSD", "NVMe SSD", "HDD", "PSU",
      "Air Cooling">>

\* welcome_configs = {} and goodbye_configs = {}
NoConfigs == [g \in {} |-> [channel_id |-> "", message |-> <<>>]]

\* The text channels of the guilds when the bot starts.
ChannelIds == {"c1", "c2"}

NoCmd == [name |-> "none", dispatched |-> TRUE]

Init ==
    /\ cmd = NoCmd
    /\ welcome_configs = NoConfigs
    /\ goodbye_configs = NoConfigs
    /\ quotes = <<>>
    /\ channels = ChannelIds
    /\ labels = DefaultLabels
    /\ role_exists \in BOOLEAN
    /\ muted = {}
    /\ tasks = [t \in TaskIds |-> IdleTask]
    /\ out = <<>>

\* ------------------------------------------------------------- SpecParse
\* One mute or remindme invocation with an arbitrary short duration string.
DurationChars ==
    {"0", "1", "2", "-", "+", "_", " ", "s", "m", "h", "d", "M", "x", "a",
     "b", "c"}

DurationStrings == UNION {[1..n -> DurationChars] : n \in 0..MaxLen}

InitParse ==
    /\ cmd \in {[name |-> n, duration |-> s, dispatched |-> FALSE] :
                  n \in {"mute", "remindme"}, s \in DurationStrings}
    /\ welcome_configs = NoConfigs
    /\ goodbye_configs = NoConfigs
    /\ quotes = <<>>
    /\ channels = ChannelIds
    /\ labels = DefaultLabels
    /\ role_exists \in BOOLEAN
    /\ muted = {}
    /\ tasks = [t \in TaskIds |-> IdleTask]
    /\ out = <<>>

Dispatched == cmd' = [cmd EXCEPT !.dispatched = TRUE]

DispatchMute ==
    /\ cmd.name = "mute"
    /\ ~cmd.dispatched
    /\ \E forbidden \in CreateOutcomes : mute(Slot, "m1", cmd.duration, forbidden)
    /\ Dispatched

DispatchRemind ==
    /\ cmd.name = "remindme"
    /\ ~cmd.dispatched
    /\ remindme(Slot, "m1", cmd.duration, "r1")
    /\ Dispatched

\* The steps of the tasks in flight, as the event loop may take them.
MuteAdded == \E t \in TaskIds : mute_added(t) /\ UNCHANGED cmd

MuteExpired == \E t \in TaskIds : mute_expired(t) /\ UNCHANGED cmd

RemindExpired ==
    \E t \in TaskIds, f \in BOOLEAN : remind_expired(t, f) /\ UNCHANGED cmd

TimePasses == \E t \in TaskIds : Tick(tasks[t].remaining) /\ UNCHANGED cmd

NextParse ==
    \/ DispatchMute
    \/ DispatchRemind
    \/ MuteAdded
    \/ MuteExpired
    \/ RemindExpired
    \/ TimePasses

SpecParse == InitParse /\ [][NextParse]_vars

\* ------------------------------------------------------------- C1, C2
Units == {"s", "m", "h", "d"}

LastChar(s) == s[Len(s)]

Prefix(s) == SubSeq(s, 1, Len(s) - 1)

AllDigits(p) == p # <<>> /\ \A i \in 1..Len(p) : p[i] \in Digits

\* The prefix is a positive integer written in digits.
PositivePrefix(s) == AllDigits(Prefix(s)) /\ DigitsValue(Prefix(s)) > 0

\* The prefix is a negative integer: a minus sign, then digits, not all zero.
NegativePrefix(s) ==
    /\ Len(s) >= 3
    /\ s[1] = "-"
    /\ AllDigits(Tail(Prefix(s)))
    /\ DigitsValue(Tail(Prefix(s))) > 0

\* The prefix is empty or holds a character no integer literal has.
NonNumericPrefix(s) ==
    \/ Prefix(s) = <<>>
    \/ \E i \in 1..(Len(s) - 1) : s[i] \notin Digits \cup {"+", "-", "_", " "}

\* The prefix is zero, so the product is.
ZeroPrefix(s) == AllDigits(Prefix(s)) /\ DigitsValue(Prefix(s)) = 0

UnknownUnit(s) == LastChar(s) \notin Units \cup {"M"}

ExpectedSeconds(s) == DigitsValue(Prefix(s)) * time_units[LastChar(s)]

Dispatching == ~cmd.dispatched /\ cmd'.dispatched

InvalidFormatOnly ==
    /\ out' = <<Say("invalid_duration")>>
    /\ tasks' = tasks
    /\ muted' = muted

\* C1: a duration string whose last character is a unit of {s, m, h, d} and
\* whose prefix is a positive integer n is parsed by mute and by remindme to
\* n * unit seconds (mute starts its task with that many seconds unless the
\* Muted role cannot be created; remindme does unless they exceed 7 days),
\* and a string with an unrecognized unit, a non-numeric or empty prefix or a
\* zero product gets the invalid-format reply alone: no role, no task.
C1_DurationParsing ==
    [][(Dispatching /\ cmd.duration # <<>>) =>
        LET s == cmd.duration IN
        /\ (LastChar(s) \in Units /\ PositivePrefix(s)) =>
              /\ \A i \in 1..Len(out') : out'[i].kind # "invalid_duration"
              /\ cmd.name = "mute" =>
                    \/ /\ tasks'[1].pc = "add_roles"
                       /\ tasks'[1].seconds = ExpectedSeconds(s)
                    \/ /\ out'[Len(out')].kind = "cannot_create_role"
                       /\ tasks' = tasks
              /\ cmd.name = "remindme" =>
                    IF ExpectedSeconds(s) <= 604800
                    THEN /\ tasks'[1].pc = "sleep"
                         /\ tasks'[1].seconds = ExpectedSeconds(s)
                         /\ tasks'[1].remaining = ExpectedSeconds(s)
                    ELSE out' = <<Say("max_7_days")>> /\ tasks' = tasks
        /\ (UnknownUnit(s) \/ NonNumericPrefix(s) \/ ZeroPrefix(s)) =>
              InvalidFormatOnly
      ]_vars

\* "10m" has been given to mute and its task holds 600 seconds.
C1_Witness ==
    /\ cmd.name = "mute"
    /\ cmd.dispatched
    /\ cmd.duration = <<"1", "0", "m">>
    /\ tasks[1].pc = "sleep"
    /\ tasks[1].seconds = 600

\* C2: a duration whose prefix is a negative integer is refused by mute and
\* by remindme with the invalid-format reply: no role, no task, no wait.
C2_NegativeRejected ==
    [][(Dispatching /\ cmd.duration # <<>> /\ NegativePrefix(cmd.duration)) =>
        InvalidFormatOnly]_vars

\* ------------------------------------------------------------- SpecMute
\* mute commands arriving at any time, with the tasks they leave behind.  The
\* durations are whole days, so that the waiting times left form a small set.
MuteDurations ==
    {<<"1", "d">>, <<"2", "d">>, <<"-", "1", "d">>, <<"0", "d">>, <<"1", "x">>,
     <<>>}

Mute ==
    \E member \in Members, duration \in MuteDurations,
       forbidden \in CreateOutcomes :
        mute(Slot, member, duration, forbidden) /\ UNCHANGED cmd

NextMute ==
    \/ Mute
    \/ MuteAdded
    \/ MuteExpired
    \/ TimePasses

\* The event loop resumes every task whose request has completed or whose
\* sleep is over, and time does not stop.
MuteFairness ==
    /\ \A t \in TaskIds : WF_vars(mute_added(t) /\ UNCHANGED cmd)
    /\ \A t \in TaskIds : WF_vars(mute_expired(t) /\ UNCHANGED cmd)
    /\ WF_vars(TimePasses)

SpecMute == Init /\ [][NextMute]_vars /\ MuteFairness

\* ------------------------------------------------------------- SpecRemind
\* remindme commands arriving at any time, around the 7-day limit.
RemindDurations ==
    {<<"7", "d">>, <<"8", "d">>, <<"0", "d">>, <<"-", "7", "d">>, <<"7", "x">>,
     <<>>}

ReminderMessages == {"r1", "r2"}

RemindMe ==
    \E author \in Members, time_str \in RemindDurations,
       message \in ReminderMessages :
        remindme(Slot, author, time_str, message) /\ UNCHANGED cmd

NextRemind ==
    \/ RemindMe
    \/ RemindExpired
    \/ TimePasses

RemindFairness ==
    /\ \A t \in TaskIds :
          WF_vars(\E f \in BOOLEAN : remind_expired(t, f) /\ UNCHANGED cmd)
    /\ WF_vars(TimePasses)

SpecRemind == Init /\ [][NextRemind]_vars /\ RemindFairness

\* ------------------------------------------------------------- C7
MuteSleeping(t) == tasks[t].kind = "mute" /\ tasks[t].pc = "sleep"

ValidDuration(s) == s # <<>> /\ LastChar(s) \in Units /\ PositivePrefix(s)

RemindSleeping(t) == tasks[t].kind = "remind" /\ tasks[t].pc = "sleep"

IsReminder(call) == call.kind = "reminder"

\* C8: remindme with a parsed delay above 604800 seconds is rejected and
\* leaves no task, so no reminder; with a delay up to and including 604800
\* it starts a wait of that delay; a reminder is only ever sent by a task
\* whose wait is over, carries that task's message to its requester (in
\* private, or in the channel when that is forbidden), is the only call of
\* its step and ends the task; and every wait begun ends.
C8_ReminderWithinSevenDays ==
    /\ [][\A author \in Members, time_str \in RemindDurations,
            message \in ReminderMessages :
            (remindme(Slot, author, time_str, message) /\ ValidDuration(time_str)) =>
                IF ExpectedSeconds(time_str) > 604800
                THEN /\ tasks' = tasks
                     /\ out' = <<Say("max_7_days")>>
                ELSE /\ tasks'[Slot].kind = "remind"
                     /\ tasks'[Slot].pc = "sleep"
                     /\ tasks'[Slot].who = author
                     /\ tasks'[Slot].message = message
                     /\ tasks'[Slot].remaining = ExpectedSeconds(time_str)
         ]_vars
    /\ [][(\E i \in 1..Len(out') : IsReminder(out'[i])) =>
            /\ Len(out') = 1
            /\ out'[1].to \in {"dm", "ctx"}
            /\ \E t \in TaskIds :
                  /\ RemindSleeping(t)
                  /\ tasks[t].remaining <= 0
                  /\ tasks'[t] = IdleTask
                  /\ out'[1].who = tasks[t].who
                  /\ out'[1].message = tasks[t].message
         ]_vars
    /\ [][\A t \in TaskIds :
            /\ (RemindSleeping(t) /\ ~RemindSleeping(t)') =>
                  /\ tasks'[t] = IdleTask
                  /\ Len(out') = 1
                  /\ IsReminder(out'[1])
                  /\ out'[1].who = tasks[t].who
                  /\ out'[1].message = tasks[t].message
            /\ (RemindSleeping(t) /\ RemindSleeping(t)') =>
                  /\ tasks'[t].who = tasks[t].who
                  /\ tasks'[t].message = tasks[t].message
         ]_vars
    /\ \A t \in TaskIds : RemindSleeping(t) ~> ~RemindSleeping(t)

\* The reminder r2 of m2 has been delivered in the channel, the private
\* message being forbidden.
C8_Witness ==
    out = <<[op |-> "send", to |-> "ctx", kind |-> "reminder", who |-> "m2",
             message |-> "r2"]>>

\* ------------------------------------------------------------- more text
StartsWith(s, p) == Len(p) <= Len(s) /\ SubSeq(s, 1, Len(p)) = p

\* str.replace(old, new): every non-overlapping occurrence, left to right.
RECURSIVE Replace(_, _, _)
Replace(s, old, new) ==
    IF s = <<>> THEN <<>>
    ELSE IF StartsWith(s, old)
    THEN new \o Replace(SubSeq(s, Len(old) + 1, Len(s)), old, new)
    ELSE <<Head(s)>> \o Replace(Tail(s), old, new)

UserPlaceholder == <<"{", "u", "s", "e", "r", "}">>

ServerPlaceholder == <<"{", "s", "e", "r", "v", "e", "r", "}">>

\* ------------------------------------------------------------- welcome / goodbye
Guilds == {"g1", "g2"}

Templates ==
    {<<"h", "i", " ">> \o UserPlaceholder,
     UserPlaceholder \o <<"@">> \o ServerPlaceholder}

\* member.mention of the joining member
Mentions == {<<"<", "@", "7", ">">>, <<"<", "@", "8", ">">>}

\* member.display_name of the leaving member: any text the user chose
DisplayNames == {<<"A", "n", "n">>, ServerPlaceholder}

\* member.guild.name at the time of the event
GuildNames == {<<"L", "a", "b">>, <<"H", "Q">>}

ConfigErrors ==
    {"MissingRequiredArgument", "BadArgument", "MissingPermissions", "Other"}

OthersUnchanged == UNCHANGED <<quotes, labels, role_exists, muted, tasks>>

Notify(kind, channel_id, text) ==
    [op |-> "send", to |-> channel_id, kind |-> kind, text |-> text]

\* (mutant) the join handler looking the guild up in the goodbye store.
on_member_join_wrong_store(guild_id, mention, guild_name) ==
    /\ IF guild_id \in DOMAIN goodbye_configs
       THEN LET config == goodbye_configs[guild_id] IN
            IF config.channel_id \in channels
            THEN out' = <<Notify("welcome", config.channel_id,
                            Replace(Replace(config.message, UserPlaceholder, mention),
                                    ServerPlaceholder, guild_name))>>
            ELSE out' = <<>>
       ELSE out' = <<>>
    /\ UNCHANGED <<welcome_configs, goodbye_configs, channels>>
    /\ OthersUnchanged

on_member_join(guild_id, mention, guild_name) ==
    /\ IF guild_id \in DOMAIN welcome_configs
       THEN LET config == welcome_configs[guild_id] IN
            IF config.channel_id \in channels
            THEN out' = <<Notify("welcome", config.channel_id,
                            Replace(Replace(config.message, UserPlaceholder, mention),
                                    ServerPlaceholder, guild_name))>>
            ELSE out' = <<>>
       ELSE out' = <<>>
    /\ UNCHANGED <<welcome_configs, goodbye_configs, channels>>
    /\ OthersUnchanged

on_member_remove(guild_id, display_name, guild_name) ==
    /\ IF guild_id \in DOMAIN goodbye_configs
       THEN LET config == goodbye_configs[guild_id] IN
            IF config.channel_id \in channels
            THEN out' = <<Notify("goodbye", config.channel_id,
                            Replace(Replace(config.message, UserPlaceholder, display_name),
                                    ServerPlaceholder, guild_name))>>
            ELSE out' = <<>>
       ELSE out' = <<>>
    /\ UNCHANGED <<welcome_configs, goodbye_configs, channels>>
    /\ OthersUnchanged

ConfigSet(kind, channel_id, message) ==
    <<[op |-> "send", to |-> "ctx", kind |-> kind, channel |-> channel_id,
       message |-> message],
      Say("placeholder_hint")>>

\* (mutant) a set that keeps the entry a guild already has.
setwelcome_first_wins(guild_id, channel_id, message) ==
    /\ channel_id \in channels
    /\ welcome_configs' =
          [g \in DOMAIN welcome_configs \cup {guild_id} |->
              IF g \in DOMAIN welcome_configs
              THEN welcome_configs[g]
              ELSE [channel_id |-> channel_id, message |-> message]]
    /\ out' = ConfigSet("welcome_set", channel_id, message)
    /\ UNCHANGED <<goodbye_configs, channels>>
    /\ OthersUnchanged

\* The TextChannel converter only yields a channel the bot can resolve.
setwelcome(guild_id, channel_id, message) ==
    /\ channel_id \in channels
    /\ welcome_configs' =
          [g \in DOMAIN welcome_configs \cup {guild_id} |->
              IF g = guild_id
              THEN [channel_id |-> channel_id, message |-> message]
              ELSE welcome_configs[g]]
    /\ out' = ConfigSet("welcome_set", channel_id, message)
    /\ UNCHANGED <<goodbye_configs, channels>>
    /\ OthersUnchanged

\* (mutant) the goodbye command left writing to the welcome store as well.
setgoodbye_both_stores(guild_id, channel_id, message) ==
    /\ channel_id \in channels
    /\ goodbye_configs' =
          [g \in DOMAIN goodbye_configs \cup {guild_id} |->
              IF g = guild_id
              THEN [channel_id |-> channel_id, message |-> message]
              ELSE goodbye_configs[g]]
    /\ welcome_configs' =
          [g \in DOMAIN welcome_configs \cup {guild_id} |->
              IF g = guild_id
              THEN [channel_id |-> channel_id, message |-> message]
              ELSE welcome_configs[g]]
    /\ out' = ConfigSet("goodbye_set", channel_id, message)
    /\ UNCHANGED channels
    /\ OthersUnchanged

setgoodbye(guild_id, channel_id, message) ==
    /\ channel_id \in channels
    /\ goodbye_configs' =
          [g \in DOMAIN goodbye_configs \cup {guild_id} |->
              IF g = guild_id
              THEN [channel_id |-> channel_id, message |-> message]
              ELSE goodbye_configs[g]]
    /\ out' = ConfigSet("goodbye_set", channel_id, message)
    /\ UNCHANGED <<welcome_configs, channels>>
    /\ OthersUnchanged

ErrorReply(command, error) ==
    [op |-> "send", to |-> "ctx", command |-> command,
     kind |-> CASE error = "MissingRequiredArgument" -> "usage"
                [] error = "BadArgument" -> "invalid_channel"
                [] error = "MissingPermissions" -> "need_manage_channels"
                [] OTHER -> "error_occurred"]

setwelcome_error(error) ==
    /\ out' = <<ErrorReply("setwelcome", error)>>
    /\ UNCHANGED <<welcome_configs, goodbye_configs, channels>>
    /\ OthersUnchanged

setgoodbye_error(error) ==
    /\ out' = <<ErrorReply("setgoodbye", error)>>
    /\ UNCHANGED <<welcome_configs, goodbye_configs, channels>>
    /\ OthersUnchanged

ConfigShown(kind, config) ==
    [op |-> "send", to |-> "ctx", kind |-> kind, channel |-> config.channel_id,
     message |-> config.message]

showwelcome(guild_id) ==
    /\ IF guild_id \in DOMAIN welcome_configs
       THEN LET config == welcome_configs[guild_id] IN
            IF config.channel_id \in channels
            THEN out' = <<ConfigShown("welcome_shown", config)>>
            ELSE out' = <<Say("welcome_channel_missing")>>
       ELSE out' = <<Say("welcome_not_set")>>
    /\ UNCHANGED <<welcome_configs, goodbye_configs, channels>>
    /\ OthersUnchanged

showgoodbye(guild_id) ==
    /\ IF guild_id \in DOMAIN goodbye_configs
       THEN LET config == goodbye_configs[guild_id] IN
            IF config.channel_id \in channels
            THEN out' = <<ConfigShown("goodbye_shown", config)>>
            ELSE out' = <<Say("goodbye_channel_missing")>>
       ELSE out' = <<Say("goodbye_not_set")>>
    /\ UNCHANGED <<welcome_configs, goodbye_configs, channels>>
    /\ OthersUnchanged

\* A channel is deleted on the platform: bot.get_channel no longer finds it.
ChannelDeleted(channel_id) ==
    /\ channel_id \in channels
    /\ channels' = channels \ {channel_id}
    /\ out' = <<>>
    /\ UNCHANGED <<welcome_configs, goodbye_configs>>
    /\ OthersUnchanged

\* ------------------------------------------------------------- SpecStore
MemberJoins ==
    \E g \in Guilds, mention \in Mentions, name \in GuildNames :
        on_member_join(g, mention, name) /\ UNCHANGED cmd

MemberLeaves ==
    \E g \in Guilds, display_name \in DisplayNames, name \in GuildNames :
        on_member_remove(g, display_name, name) /\ UNCHANGED cmd

SetWelcome ==
    \E g \in Guilds, c \in ChannelIds, message \in Templates :
        setwelcome(g, c, message) /\ UNCHANGED cmd

SetGoodbye ==
    \E g \in Guilds, c \in ChannelIds, message \in Templates :
        setgoodbye(g, c, message) /\ UNCHANGED cmd

SetWelcomeRejected ==
    \E error \in ConfigErrors : setwelcome_error(error) /\ UNCHANGED cmd

SetGoodbyeRejected ==
    \E error \in ConfigErrors : setgoodbye_error(error) /\ UNCHANGED cmd

ShowWelcome == \E g \in Guilds : showwelcome(g) /\ UNCHANGED cmd

ShowGoodbye == \E g \in Guilds : showgoodbye(g) /\ UNCHANGED cmd

ChannelGoes == \E c \in ChannelIds : ChannelDeleted(c) /\ UNCHANGED cmd

NextStore ==
    \/ MemberJoins
    \/ MemberLeaves
    \/ SetWelcome
    \/ SetGoodbye
    \/ SetWelcomeRejected
    \/ SetGoodbyeRejected
    \/ ShowWelcome
    \/ ShowGoodbye
    \/ ChannelGoes

InitStore == Init /\ ~role_exists

SpecStore == InitStore /\ [][NextStore]_vars

\* ------------------------------------------------------------- C3
Entry(channel_id, message) == [channel_id |-> channel_id, message |-> message]

\* What a read of guild g shows, given the store and the channels.
ReadOf(store, g, shown, missing, unset) ==
    IF g \notin DOMAIN store THEN <<Say(unset)>>
    ELSE IF store[g].channel_id \in channels
    THEN <<[op |-> "send", to |-> "ctx", kind |-> shown,
            channel |-> store[g].channel_id, message |-> store[g].message]>>
    ELSE <<Say(missing)>>

\* The entry of guild g differs between the two states.
EntryChanged(store, storeNext, g) ==
    \/ (g \in DOMAIN store) # (g \in DOMAIN storeNext)
    \/ g \in DOMAIN store /\ g \in DOMAIN storeNext /\ store[g] # storeNext[g]

\* C3: for the welcome store and the goodbye store alike, set(g, c, t) makes
\* the entry of g exactly (c, t), whatever it was; the entry of a guild
\* changes in no other way, so it stays the last (c, t) set and a guild never
\* set has none; and a read of g shows the entry of g (its channel and its
\* message, while that channel exists) or, when g has none, 'not set'.
C3_LastWriteWins ==
    /\ [][\A g \in Guilds, c \in ChannelIds, t \in Templates :
            /\ setwelcome(g, c, t) =>
                  /\ g \in DOMAIN welcome_configs'
                  /\ welcome_configs'[g] = Entry(c, t)
            /\ setgoodbye(g, c, t) =>
                  /\ g \in DOMAIN goodbye_configs'
                  /\ goodbye_configs'[g] = Entry(c, t)
         ]_vars
    /\ [][\A g \in Guilds :
            /\ EntryChanged(welcome_configs, welcome_configs', g) =>
                  \E c \in ChannelIds, t \in Templates : setwelcome(g, c, t)
            /\ EntryChanged(goodbye_configs, goodbye_configs', g) =>
                  \E c \in ChannelIds, t \in Templates : setgoodbye(g, c, t)
         ]_vars
    /\ [][\A g \in Guilds :
            /\ showwelcome(g) =>
                  out' = ReadOf(welcome_configs, g, "welcome_shown",
                                "welcome_channel_missing", "welcome_not_set")
            /\ showgoodbye(g) =>
                  out' = ReadOf(goodbye_configs, g, "goodbye_shown",
                                "goodbye_channel_missing", "goodbye_not_set")
         ]_vars

\* The welcome entry of g1 has been overwritten (c2 with the second template
\* shown) while g2 was never set.
C3_Witness ==
    /\ out = <<[op |-> "send", to |-> "ctx", kind |-> "welcome_shown",
                channel |-> "c2",
                message |-> UserPlaceholder \o <<"@">> \o ServerPlaceholder]>>
    /\ "g1" \in DOMAIN welcome_configs
    /\ "g2" \notin DOMAIN welcome_configs
    /\ "g1" \in DOMAIN goodbye_configs

\* ------------------------------------------------------------- C4
Sends(calls) == {i \in 1..Len(calls) : calls[i].op = "send"}

Notifies(calls, kind) == calls # <<>> /\ calls[1].kind = kind

\* C4: a member-joined event sends something only if the welcome store has an
\* entry for the member's guild at that moment, and then one message to that
\* entry's channel; a member-left event likewise with the goodbye store; an
\* event for a guild without an entry sends nothing and changes nothing, and
\* no notification changes either store.
C4_NotifyOnlyWhenConfigured ==
    /\ [][Notifies(out', "welcome") =>
            /\ Len(out') = 1
            /\ welcome_configs' = welcome_configs
            /\ goodbye_configs' = goodbye_configs
            /\ \A g \in Guilds, mention \in Mentions, name \in GuildNames :
                  on_member_join(g, mention, name) =>
                     /\ g \in DOMAIN welcome_configs
                     /\ out'[1].to = welcome_configs[g].channel_id
         ]_vars
    /\ [][Notifies(out', "goodbye") =>
            /\ Len(out') = 1
            /\ welcome_configs' = welcome_configs
            /\ goodbye_configs' = goodbye_configs
            /\ \A g \in Guilds, display_name \in DisplayNames, name \in GuildNames :
                  on_member_remove(g, display_name, name) =>
                     /\ g \in DOMAIN goodbye_configs
                     /\ out'[1].to = goodbye_configs[g].channel_id
         ]_vars
    /\ [][\A g \in Guilds, name \in GuildNames :
            /\ g \notin DOMAIN welcome_configs =>
                  \A mention \in Mentions :
                     on_member_join(g, mention, name) =>
                        /\ Sends(out') = {}
                        /\ UNCHANGED <<welcome_configs, goodbye_configs, quotes>>
            /\ g \notin DOMAIN goodbye_configs =>
                  \A display_name \in DisplayNames :
                     on_member_remove(g, display_name, name) =>
                        /\ Sends(out') = {}
                        /\ UNCHANGED <<welcome_configs, goodbye_configs, quotes>>
         ]_vars

\* A welcome has been sent for g1 while g2 has a goodbye entry but no welcome
\* entry, so that a join in g2 sends nothing.
C4_Witness ==
    /\ Len(out) = 1
    /\ out[1].kind = "welcome"
    /\ "g2" \notin DOMAIN welcome_configs
    /\ "g2" \in DOMAIN goodbye_configs

\* ------------------------------------------------------------- quotes
\* Most quotes the model stores.
MaxQuotes == 2

QuoteTexts == {<<"h", "i">>, <<"o", "k">>}

AuthorNames == {<<"A", "n", "n">>, <<"B", "o">>}

Dash == <<" ", "-", " ">>

\* ctx.message.reference, with what fetch_message does for it
NoReference ==
    [present |-> FALSE, fetch |-> "none", content |-> <<>>, author |-> <<>>]

References ==
    {NoReference}
    \cup {[present |-> TRUE, fetch |-> "ok", content |-> c, author |-> a] :
            c \in QuoteTexts \cup {<<>>}, a \in AuthorNames}
    \cup {[present |-> TRUE, fetch |-> f, content |-> <<>>, author |-> <<>>] :
            f \in {"not_found", "error"}}

QuotesFrame ==
    UNCHANGED <<welcome_configs, goodbye_configs, channels, labels,
                role_exists, muted, tasks>>

\* (mutant) the new quote put in front of the list.
StoreQuoteInFront(quote_text) ==
    IF quote_text # <<>>
    THEN /\ Len(quotes) < MaxQuotes
         /\ quotes' = <<quote_text>> \o quotes
         /\ out' = <<Say("quote_added")>>
    ELSE /\ quotes' = quotes
         /\ out' = <<>>

\* if quote_text: quotes.append(quote_text)
StoreQuote(quote_text) ==
    IF quote_text # <<>>
    THEN /\ Len(quotes) < MaxQuotes
         /\ quotes' = Append(quotes, quote_text)
         /\ out' = <<Say("quote_added")>>
    ELSE /\ quotes' = quotes
         /\ out' = <<>>

Refuse(kind) == quotes' = quotes /\ out' = <<Say(kind)>>

addquote(message_content, author_name, reference) ==
    /\ QuotesFrame
    /\ IF reference.present
       THEN IF reference.fetch = "not_found" THEN Refuse("reply_not_found")
            ELSE IF reference.fetch = "error" THEN Refuse("reply_fetch_error")
            ELSE IF reference.content = <<>> THEN Refuse("reply_no_text")
            ELSE StoreQuote(reference.content \o Dash \o reference.author)
       ELSE IF message_content # <<>>
            THEN StoreQuote(message_content \o Dash \o author_name)
            ELSE Refuse("quote_usage")

\* random.choice(quotes) is any stored quote.
quote(i) ==
    /\ QuotesFrame
    /\ quotes' = quotes
    /\ IF quotes # <<>>
       THEN /\ i \in 1..Len(quotes)
            /\ out' = <<[op |-> "send", to |-> "ctx", kind |-> "quote",
                         text |-> quotes[i]]>>
       ELSE /\ i = 1
            /\ out' = <<Say("no_quotes")>>

\* ------------------------------------------------------------- SpecQuotes
AddQuote ==
    \E message_content \in QuoteTexts \cup {<<>>}, author_name \in AuthorNames,
       reference \in References :
        addquote(message_content, author_name, reference) /\ UNCHANGED cmd

Quote == \E i \in 1..Max(Len(quotes), 1) : quote(i) /\ UNCHANGED cmd

NextQuotes ==
    \/ AddQuote
    \/ Quote

SpecQuotes == InitStore /\ [][NextQuotes]_vars

\* ------------------------------------------------------------- C5
AppendOnly ==
    /\ Len(quotes') \in {Len(quotes), Len(quotes) + 1}
    /\ SubSeq(quotes', 1, Len(quotes)) = quotes

\* C5 as claimed: addquote with text X by user U always adds "X - U".
C5_AsClaimed ==
    [][\A X \in QuoteTexts, U \in AuthorNames, reference \in References :
         addquote(X, U, reference) => quotes' = Append(quotes, X \o Dash \o U)
      ]_vars

\* C5 (amended): addquote with text X by user U in a message that is not a
\* reply adds exactly the entry "X - U" at the end; in a reply the text is
\* ignored and the entry added is "<replied text> - <replied author>", or
\* nothing when the replied message has no text or cannot be fetched; and no
\* step removes, reorders or rewrites a stored quote.
C5_AppendOnly ==
    /\ [][\A X \in QuoteTexts, U \in AuthorNames, reference \in References :
            addquote(X, U, reference) =>
               IF ~reference.present
               THEN quotes' = Append(quotes, X \o Dash \o U)
               ELSE IF reference.fetch = "ok" /\ reference.content # <<>>
               THEN quotes' = Append(quotes, reference.content \o Dash \o reference.author)
               ELSE quotes' = quotes
         ]_vars
    /\ [][AppendOnly]_vars

\* "ok - Bo" has been added after "hi - Ann".
C5_Witness ==
    /\ quotes = <<<<"h", "i", " ", "-", " ", "A", "n", "n">>,
                  <<"o", "k", " ", "-", " ", "B", "o">>>>
    /\ out = <<Say("quote_added")>>

\* ------------------------------------------------------------- predict
\* Most attachments of one message in the model.
MaxAttachments == 2

\* Label files the bot may have loaded: none (the defaults), a file shorter
\* than the model's output, a file with a blank line.
LabelFiles == {DefaultLabels, <<"CPU">>, <<"CPU", "">>}

\* np.argmax over the model's output.
TopIndices == {0, 1}

\* The top softmax value, in hundredths.
Confidences == {99}

\* The bytes of an image, by what the classification does with them.
Images ==
    {[fault |-> f, top |-> 0, confidence |-> 0] :
        f \in {"decode", "resize", "infer"}}
    \cup {[fault |-> "none", top |-> t, confidence |-> c] :
        t \in TopIndices, c \in Confidences}

\* return None, None
NoPrediction ==
    [raised |-> FALSE, is_none |-> TRUE, prediction |-> "", confidence |-> 0]

\* An exception leaving the function.
Raised ==
    [raised |-> TRUE, is_none |-> TRUE, prediction |-> "", confidence |-> 0]

Predicted(image) ==
    [raised |-> FALSE, is_none |-> FALSE,
     prediction |-> labels[image.top + 1], confidence |-> image.confidence]

\* (mutant) the label lookup moved out of the try block.
predict_image_lookup_unguarded(image) ==
    IF image.fault # "none" THEN NoPrediction
    ELSE IF image.top >= Len(labels) THEN Raised
    ELSE Predicted(image)

\* Image.open, resize, model.predict and labels[...] inside try/except.
predict_image(image) ==
    IF image.fault # "none" THEN NoPrediction
    ELSE IF image.top >= Len(labels) THEN NoPrediction
    ELSE Predicted(image)

\* if prediction:
Truthy(result) == ~result.is_none /\ result.prediction # ""

ImagePrefix == <<"i", "m", "a", "g", "e", "/">>

\* content_type: None (here the empty text), text/plain, image/png
ContentTypes ==
    {<<>>, <<"t", "e", "x", "t", "/", "p", "l", "a", "i", "n">>,
     ImagePrefix \o <<"p", "n", "g">>}

IsImage(attachment) ==
    attachment.content_type # <<>> /\ StartsWith(attachment.content_type, ImagePrefix)

NoImage == [fault |-> "decode", top |-> 0, confidence |-> 0]

\* Files that are not images carry bytes no image decoder accepts.
Attachments ==
    {[content_type |-> ct, image |-> im] :
        ct \in {ImagePrefix \o <<"p", "n", "g">>}, im \in Images}
    \cup {[content_type |-> ct, image |-> NoImage] : ct \in ContentTypes}

Prediction(kind, result) ==
    [op |-> "send", to |-> "ctx", kind |-> kind,
     prediction |-> result.prediction, confidence |-> result.confidence]

\* The loop over the attachments; an exception ends it.
RECURSIVE PredictReplies(_)
PredictReplies(attachments) ==
    IF attachments = <<>> THEN <<>>
    ELSE LET attachment == Head(attachments) IN
         IF IsImage(attachment)
         THEN LET result == predict_image(attachment.image) IN
              IF result.raised THEN <<>>
              ELSE IF Truthy(result)
              THEN <<Prediction("prediction", result)>> \o PredictReplies(Tail(attachments))
              ELSE <<Say("could_not_process")>> \o PredictReplies(Tail(attachments))
         ELSE <<Say("attach_photo")>> \o PredictReplies(Tail(attachments))

PredictFrame ==
    UNCHANGED <<welcome_configs, goodbye_configs, quotes, channels, labels,
                role_exists, muted, tasks>>

predict(attachments) ==
    /\ PredictFrame
    /\ out' = IF attachments # <<>> THEN PredictReplies(attachments)
              ELSE <<Say("provide_photo")>>

\* What session.get does: the connection fails, something else raises, or a
\* response with a status arrives.
Fetches ==
    {[raises |-> r, status |-> 0] : r \in {"connector", "other"}}
    \cup {[raises |-> "none", status |-> s] : s \in {200, 404}}

\* (mutant) the status test dropped: every response is classified.
net_predict_any_status(fetch, image) ==
    /\ PredictFrame
    /\ IF fetch.raises = "connector" THEN out' = <<Say("could_not_connect")>>
       ELSE IF fetch.raises = "other" THEN out' = <<Say("problem_occurred")>>
       ELSE LET result == predict_image(image) IN
            IF result.raised THEN out' = <<Say("problem_occurred")>>
            ELSE IF Truthy(result)
            THEN out' = <<Prediction("url_prediction", result)>>
            ELSE out' = <<Say("could_not_process_url")>>

net_predict(fetch, image) ==
    /\ PredictFrame
    /\ IF fetch.raises = "connector" THEN out' = <<Say("could_not_connect")>>
       ELSE IF fetch.raises = "other" THEN out' = <<Say("problem_occurred")>>
       ELSE IF fetch.status = 200
       THEN LET result == predict_image(image) IN
            IF result.raised THEN out' = <<Say("problem_occurred")>>
            ELSE IF Truthy(result)
            THEN out' = <<Prediction("url_prediction", result)>>
            ELSE out' = <<Say("could_not_process_url")>>
       ELSE out' = <<[op |-> "send", to |-> "ctx", kind |-> "download_failed",
                      status |-> fetch.status]>>

\* ------------------------------------------------------------- SpecPredict
AttachmentLists ==
    UNION {[1..n -> Attachments] : n \in 0..MaxAttachments}

\* cmd is the message being handled.
Predict ==
    \E attachments \in AttachmentLists :
        /\ cmd' = [name |-> "predict", attachments |-> attachments,
                   dispatched |-> TRUE]
        /\ predict(attachments)

NetPredict ==
    \E fetch \in Fetches, image \in Images :
        /\ cmd' = [name |-> "net_predict", fetch |-> fetch, image |-> image,
                   dispatched |-> TRUE]
        /\ net_predict(fetch, image)

NextPredict ==
    \/ Predict
    \/ NetPredict

InitPredict ==
    /\ cmd = NoCmd
    /\ welcome_configs = NoConfigs
    /\ goodbye_configs = NoConfigs
    /\ quotes = <<>>
    /\ channels = ChannelIds
    /\ labels \in LabelFiles
    /\ role_exists = FALSE
    /\ muted = {}
    /\ tasks = [t \in TaskIds |-> IdleTask]
    /\ out = <<>>

SpecPredict == InitPredict /\ [][NextPredict]_vars

\* ------------------------------------------------------------- C9
\* Decoding, resizing, inference or the label lookup raises for this image.
ClassificationRaises(image) ==
    image.fault \in {"decode", "resize", "infer"} \/ image.top + 1 > Len(labels)

\* C9: whenever decoding, resizing, inference or the label lookup raises,
\* predict_image returns (None, None) and raises nothing; predict then answers
\* that attachment with exactly one "could not process" reply, one reply per
\* attachment and none twice; net_predict answers a downloaded image with the
\* single reply "could not process"; and both commands stay enabled afterwards.
C9_ClassificationNeverRaises ==
    /\ \A image \in Images :
          /\ ~predict_image(image).raised
          /\ ClassificationRaises(image) => predict_image(image) = NoPrediction
    /\ cmd.name = "predict" /\ cmd.attachments # <<>> =>
          /\ Len(out) = Len(cmd.attachments)
          /\ \A i \in 1..Len(cmd.attachments) :
                IsImage(cmd.attachments[i])
                   /\ ClassificationRaises(cmd.attachments[i].image)
                   => out[i] = Say("could_not_process")
    /\ cmd.name = "net_predict" /\ cmd.fetch.raises = "none"
          /\ cmd.fetch.status = 200 /\ ClassificationRaises(cmd.image)
          => out = <<Say("could_not_process_url")>>
    /\ ENABLED Predict
    /\ ENABLED NetPredict

\* With a one-line labels file, a message with two images got a prediction
\* for the first and "could not process" for the second, whose label lookup
\* raised.
C9_Witness ==
    /\ labels = <<"CPU">>
    /\ cmd.name = "predict"
    /\ Len(cmd.attachments) = MaxAttachments
    /\ cmd.attachments[MaxAttachments].image.fault = "none"
    /\ cmd.attachments[MaxAttachments].image.top = 1
    /\ IsImage(cmd.attachments[MaxAttachments])
    /\ out[1].kind = "prediction"
    /\ out[MaxAttachments] = Say("could_not_process")

\* ------------------------------------------------------------- clear
\* amount = 100  # Cap at 100
PurgeCap == 100

\* How far below zero and above the cap the requested amounts reach.
ExtraAmounts == 3

Amounts == (0 - ExtraAmounts)..(PurgeCap + ExtraAmounts)

Purge(limit) == [op |-> "purge", to |-> "ctx", limit |-> limit]

Deleted(amount) ==
    [op |-> "send", to |-> "ctx", kind |-> "messages_deleted",
     amount |-> amount, delete_after |-> 5]

\* (mutant) the notice is sent but the amount is left as requested.
clear_uncapped(amount) ==
    /\ PredictFrame
    /\ IF amount <= 0 THEN out' = <<Say("enter_positive_number")>>
       ELSE IF amount > PurgeCap
       THEN out' = <<Say("only_up_to_100"), Purge(amount + 1), Deleted(amount)>>
       ELSE out' = <<Purge(amount + 1), Deleted(amount)>>

clear(amount) ==
    /\ PredictFrame
    /\ IF amount <= 0 THEN out' = <<Say("enter_positive_number")>>
       ELSE IF amount > PurgeCap
       THEN out' = <<Say("only_up_to_100"), Purge(PurgeCap + 1), Deleted(PurgeCap)>>
       ELSE out' = <<Purge(amount + 1), Deleted(amount)>>

clear_error(error) ==
    /\ PredictFrame
    /\ out' = <<Say(CASE error = "MissingPermissions" -> "need_manage_messages"
                      [] error = "MissingRequiredArgument" -> "specify_number"
                      [] error = "BadArgument" -> "invalid_number"
                      [] OTHER -> "error_occurred")>>

\* ------------------------------------------------------------- SpecClear
Clear ==
    \E amount \in Amounts :
        /\ cmd' = [name |-> "clear", amount |-> amount, dispatched |-> TRUE]
        /\ clear(amount)

ClearRejected ==
    \E error \in ConfigErrors :
        /\ cmd' = [name |-> "clear", error |-> error, dispatched |-> FALSE]
        /\ clear_error(error)

NextClear ==
    \/ Clear
    \/ ClearRejected

SpecClear == InitStore /\ [][NextClear]_vars

\* ------------------------------------------------------------- C6
Purges == SelectSeq(out, LAMBDA call : call.op = "purge")

Cleared == cmd.name = "clear" /\ cmd.dispatched

\* C6: clear(amount) with amount <= 0 issues no purge; with a positive amount
\* it issues exactly one purge whose limit is min(amount, 100) + 1, so never
\* more than 101; and above 100 the amount it reports is the cap, 100.
C6_ClearCapped ==
    Cleared =>
       /\ cmd.amount <= 0 => Purges = <<>>
       /\ cmd.amount > 0 =>
             /\ Len(Purges) = 1
             /\ Purges[1].limit = Min(cmd.amount, 100) + 1
             /\ Purges[1].limit <= 101
       /\ cmd.amount > 100 => out[Len(out)].amount = 100

\* clear 101 was capped: the purge limit is 101.
C6_Witness ==
    /\ Cleared
    /\ cmd.amount = 101
    /\ Purges = <<Purge(101)>>

\* ------------------------------------------------------------- info
\* Longest generated part name.
MaxNameLen == 3

\* Characters outside ASCII are named: "I." is the dotted capital I, "i-" the
\* dotless small i, "S," and "s," the S with cedilla, "G^" and "g^" the G with
\* breve.
LowerLetters ==
    <<"a", "b", "c", "d", "e", "f", "g", "h", "i", "j", "k", "l", "m", "n",
      "o", "p", "q", "r", "s", "t", "u", "v", "w", "x", "y", "z">>

UpperLetters ==
    <<"A", "B", "C", "D", "E", "F", "G", "H", "I", "J", "K", "L", "M", "N",
      "O", "P", "Q", "R", "S", "T", "U", "V", "W", "X", "Y", "Z">>

\* str.upper() of one character.
UpperChar(c) ==
    IF \E i \in 1..Len(LowerLetters) : LowerLetters[i] = c
    THEN UpperLetters[CHOOSE i \in 1..Len(LowerLetters) : LowerLetters[i] = c]
    ELSE CASE c = "i-" -> "I"
           [] c = "s," -> "S,"
           [] c = "g^" -> "G^"
           [] OTHER -> c

Upper(s) == [i \in 1..Len(s) |-> UpperChar(s[i])]

\* sub in s
Contains(s, sub) ==
    \E i \in 0..(Len(s) - Len(sub)) : SubSeq(s, i + 1, i + Len(sub)) = sub

AIR_COOLING == <<"A", "I", "R", " ", "C", "O", "O", "L", "I", "N", "G">>

HAVA_SOGUTMA == <<"H", "A", "V", "A", " ", "S", "O", "G^", "U", "T", "M", "A">>

SATA_SSD == <<"S", "A", "T", "A", " ", "S", "S", "D">>

NVME_SSD == <<"N", "V", "M", "E", " ", "S", "S", "D">>

HDD == <<"H", "D", "D">>

PSU == <<"P", "S", "U">>

RAM == <<"R", "A", "M">>

GPU == <<"G", "P", "U">>

EKRAN_KARTI == <<"E", "K", "R", "A", "N", " ", "K", "A", "R", "T", "I">>

CPU == <<"C", "P", "U">>

ISLEMCI == <<"I.", "S,", "L", "E", "M", "C", "I.">>

MOTHERBOARD == <<"M", "O", "T", "H", "E", "R", "B", "O", "A", "R", "D">>

ANAKART == <<"A", "N", "A", "K", "A", "R", "T">>

\* The keys of PC_PART_INFO_EN.
PartKeys ==
    {CPU, GPU, RAM, MOTHERBOARD, SATA_SSD, NVME_SSD, HDD, PSU, AIR_COOLING}

\* The parts the not-found message lists.
ListedParts ==
    <<"CPU", "GPU", "RAM", "Motherboard", "SATA SSD", "NVMe SSD", "HDD", "PSU",
      "Air Cooling">>

requested_part(part_name_upper) ==
    IF Contains(part_name_upper, AIR_COOLING) \/ Contains(part_name_upper, HAVA_SOGUTMA)
    THEN AIR_COOLING
    ELSE IF Contains(part_name_upper, SATA_SSD) THEN SATA_SSD
    ELSE IF Contains(part_name_upper, NVME_SSD) THEN NVME_SSD
    ELSE IF Contains(part_name_upper, HDD) THEN HDD
    ELSE IF Contains(part_name_upper, PSU) THEN PSU
    ELSE IF Contains(part_name_upper, RAM) THEN RAM
    ELSE IF Contains(part_name_upper, GPU) \/ Contains(part_name_upper, EKRAN_KARTI)
    THEN GPU
    ELSE IF Contains(part_name_upper, CPU) \/ Contains(part_name_upper, ISLEMCI)
    THEN CPU
    ELSE IF Contains(part_name_upper, MOTHERBOARD) \/ Contains(part_name_upper, ANAKART)
    THEN MOTHERBOARD
    ELSE part_name_upper

PartInfo(key) == [op |-> "send", to |-> "ctx", kind |-> "part_info", part |-> key]

NotFound(part_name) ==
    [op |-> "send", to |-> "ctx", kind |-> "part_not_found",
     part_name |-> part_name, parts |-> ListedParts]

info(part_name) ==
    /\ PredictFrame
    /\ LET requested == requested_part(Upper(part_name)) IN
       out' = IF requested \in PartKeys THEN <<PartInfo(requested)>>
              ELSE <<NotFound(part_name)>>

\* ------------------------------------------------------------- SpecInfo
NameChars == {"c", "p", "u", "i", "I."}

ShortNames == UNION {[1..n -> NameChars] : n \in 1..MaxNameLen}

PartNames ==
    ShortNames \cup
    {<<"c", "p", "u">>,
     <<"C", "P", "U">>,
     <<"C", "p", "u">>,
     <<"m", "y", " ", "c", "p", "u">>,
     <<"I.", "s,", "l", "e", "m", "c", "i">>,
     <<"i", "s,", "l", "e", "m", "c", "i">>,
     <<"I.", "S,", "L", "E", "M", "C", "I.">>,
     <<"t", "o", "a", "s", "t", "e", "r">>,
     <<"g", "p", "u">>,
     <<"e", "k", "r", "a", "n", " ", "k", "a", "r", "t", "i-">>,
     <<"r", "a", "m">>,
     <<"p", "r", "o", "g", "r", "a", "m">>,
     <<"a", "n", "a", "k", "a", "r", "t">>,
     <<"M", "o", "t", "h", "e", "r", "b", "o", "a", "r", "d">>,
     <<"h", "d", "d">>,
     <<"p", "s", "u">>,
     <<"s", "a", "t", "a", " ", "s", "s", "d">>,
     <<"n", "v", "m", "e", " ", "s", "s", "d">>,
     <<"s", "s", "d">>,
     <<"a", "i", "r", " ", "c", "o", "o", "l", "i", "n", "g">>,
     <<"h", "a", "v", "a", " ", "s", "o", "g^", "u", "t", "m", "a">>,
     <<"H", "A", "V", "A", " ", "S", "O", "G^", "U", "T", "M", "A">>,
     <<"p", "s", "u", " ", "h", "d", "d">>}

Info ==
    \E part_name \in PartNames :
        /\ cmd' = [name |-> "info", part_name |-> part_name, dispatched |-> TRUE]
        /\ info(part_name)

NextInfo ==
    \/ Info

SpecInfo == InitStore /\ [][NextInfo]_vars

\* ------------------------------------------------------------- C10
Informed(part_name) == cmd.name = "info" /\ cmd.part_name = part_name

\* C10: info("cpu") and info("I.s,lemci") (the Turkish word for processor,
\* written with a dotted capital I) both answer with the CPU description, and
\* info("toaster") answers with the not-found message that lists the nine
\* supported parts.
C10_InfoAliases ==
    /\ Informed(<<"c", "p", "u">>) => out = <<PartInfo(CPU)>>
    /\ Informed(<<"I.", "s,", "l", "e", "m", "c", "i">>) => out = <<PartInfo(CPU)>>
    /\ Informed(<<"t", "o", "a", "s", "t", "e", "r">>) =>
          /\ Len(out) = 1
          /\ out[1].kind = "part_not_found"
          /\ Len(out[1].parts) = 9

\* ------------------------------------------------------------- C11
NetPredicted == cmd.name = "net_predict"

DownloadFailed(status) ==
    [op |-> "send", to |-> "ctx", kind |-> "download_failed", status |-> status]

\* The replies that carry the outcome of a classification.
ClassificationReplies == {"url_prediction", "could_not_process_url"}

\* C11: when the GET answers with a status other than 200, net_predict's only
\* reply reports that status and nothing of a classification of the body shows;
\* a reply that carries the outcome of a classification is given only for
\* status 200; and a connection failure is answered with a reply that differs
\* from every non-200 reply.
C11_StatusReported ==
    NetPredicted =>
       /\ cmd.fetch.raises = "none" /\ cmd.fetch.status # 200
             => out = <<DownloadFailed(cmd.fetch.status)>>
       /\ (\E i \in 1..Len(out) : out[i].kind \in ClassificationReplies)
             => cmd.fetch.raises = "none" /\ cmd.fetch.status = 200
       /\ cmd.fetch.raises = "connector" =>
             /\ out = <<Say("could_not_connect")>>
             /\ \A f \in Fetches : out # <<DownloadFailed(f.status)>>

\* A 404 answer for an image the classifier would have labelled.
C11_Witness ==
    /\ NetPredicted
    /\ cmd.fetch = [raises |-> "none", status |-> 404]
    /\ cmd.image.fault = "none"
    /\ out = <<DownloadFailed(404)>>

\* ------------------------------------------------------------- SpecWaits
\* Timed waits in flight while other commands and events arrive: a one-day
\* mute, a two-day reminder, and commands on the stores.
WaitMute ==
    \E forbidden \in CreateOutcomes :
        mute(Slot, "m1", <<"1", "d">>, forbidden) /\ UNCHANGED cmd

WaitRemind == remindme(Slot, "m2", <<"2", "d">>, "r1") /\ UNCHANGED cmd

WaitSetWelcome ==
    setwelcome("g1", "c1", UserPlaceholder \o <<"@">> \o ServerPlaceholder)
       /\ UNCHANGED cmd

WaitShowWelcome == showwelcome("g1") /\ UNCHANGED cmd

WaitMemberJoins ==
    on_member_join("g1", <<"<", "@", "7", ">">>, <<"H", "Q">>) /\ UNCHANGED cmd

WaitAddQuote ==
    addquote(<<"o", "k">>, <<"B", "o">>, NoReference) /\ UNCHANGED cmd

NextWaits ==
    \/ WaitMute
    \/ WaitRemind
    \/ WaitSetWelcome
    \/ WaitShowWelcome
    \/ WaitMemberJoins
    \/ WaitAddQuote
    \/ MuteAdded
    \/ MuteExpired
    \/ RemindExpired
    \/ TimePasses

\* The event loop resumes every task whose request has completed or whose
\* sleep is over, and time does not stop; commands arrive as they may.
WaitsFairness == MuteFairness /\ RemindFairness

SpecWaits == InitStore /\ [][NextWaits]_vars /\ WaitsFairness

\* ------------------------------------------------------------- C12
\* Task t is suspended in asyncio.sleep with time left.
Waiting(t) == tasks[t].pc = "sleep" /\ tasks[t].remaining > 0

FreeTask == \E t \in TaskIds : tasks[t].pc = "idle"

\* C12: a task that starts its timed wait is left suspended with its whole
\* duration ahead (the handler does not hold the event loop); while any task
\* is so suspended every other command and event can be taken at once: a
\* config set, a show, a join event, addquote, and a further mute or remindme;
\* such a step leaves every suspended wait as it was, only the passing of time
\* shortens it; and every pending wait still ends.
C12_WaitsDoNotBlock ==
    /\ [][\A t \in TaskIds :
            /\ tasks[t].pc = "add_roles" /\ tasks'[t] # tasks[t] =>
                  /\ tasks'[t].pc = "sleep"
                  /\ tasks'[t].remaining = tasks[t].seconds
            /\ tasks[t].pc = "idle" /\ tasks'[t].kind = "remind" =>
                  /\ tasks'[t].pc = "sleep"
                  /\ tasks'[t].remaining = tasks'[t].seconds
         ]_vars
    /\ []((\E t \in TaskIds : Waiting(t)) =>
            /\ ENABLED WaitSetWelcome
            /\ ENABLED WaitShowWelcome
            /\ ENABLED WaitMemberJoins
            /\ Len(quotes) < MaxQuotes => ENABLED (WaitAddQuote /\ quotes' # quotes)
            /\ FreeTask => ENABLED (WaitRemind /\ tasks' # tasks)
            /\ FreeTask /\ "m1" \notin muted => ENABLED (WaitMute /\ tasks' # tasks))
    /\ [][\A t \in TaskIds :
            Waiting(t) /\ tasks'[t] # tasks[t] =>
               /\ out' = <<>>
               /\ tasks'[t] = [tasks[t] EXCEPT !.remaining = tasks'[t].remaining]
               /\ tasks'[t].remaining < tasks[t].remaining
         ]_vars
    /\ \A t \in TaskIds : Waiting(t) ~> tasks[t].pc = "idle"

\* A welcome template was stored while a mute and a reminder were both waiting.
C12_Witness ==
    /\ \E t \in TaskIds : Waiting(t) /\ tasks[t].kind = "mute"
    /\ \E t \in TaskIds : Waiting(t) /\ tasks[t].kind = "remind"
    /\ "g1" \in DOMAIN welcome_configs
    /\ out = ConfigSet("welcome_set", "c1", welcome_configs["g1"].message)

\* ------------------------------------------------------------- C13
\* The template with "{user}" and "{server}" replaced independently: one pass
\* over the template, the text put in for a placeholder not looked at again.
RECURSIVE Substitute(_, _, _)
Substitute(template, user, server) ==
    IF template = <<>> THEN <<>>
    ELSE IF StartsWith(template, UserPlaceholder)
    THEN user \o Substitute(SubSeq(template, Len(UserPlaceholder) + 1, Len(template)),
                            user, server)
    ELSE IF StartsWith(template, ServerPlaceholder)
    THEN server \o Substitute(SubSeq(template, Len(ServerPlaceholder) + 1, Len(template)),
                              user, server)
    ELSE <<Head(template)>> \o Substitute(Tail(template), user, server)

\* C13: the text of a welcome (goodbye) notification is the stored template
\* with every "{user}" replaced by the member's mention (display name) and
\* every "{server}" by the guild's name as they are at the event, the two
\* replacements independent of each other, so that text put in for "{user}"
\* is not rewritten by the "{server}" replacement; and the event leaves the
\* stored template as it was.
C13_IndependentReplacements ==
    /\ [][Notifies(out', "welcome") =>
            \A g \in Guilds, mention \in Mentions, name \in GuildNames :
               on_member_join(g, mention, name) =>
                  /\ out'[1].text = Substitute(welcome_configs[g].message, mention, name)
                  /\ welcome_configs' = welcome_configs
         ]_vars
    /\ [][Notifies(out', "goodbye") =>
            \A g \in Guilds, display_name \in DisplayNames, name \in GuildNames :
               on_member_remove(g, display_name, name) =>
                  /\ out'[1].text = Substitute(goodbye_configs[g].message, display_name, name)
                  /\ goodbye_configs' = goodbye_configs
         ]_vars

\* ------------------------------------------------------------- C14
\* The tasks that will take the Muted role from member m when their wait ends.
PendingUnmutes(m) == {t \in TaskIds : MuteSleeping(t) /\ tasks[t].who = m}

\* C14: at every moment each member has at most one pending scheduled unmute
\* and holds the Muted role exactly while one is pending; and a mute command
\* for a member who holds the role changes no role and schedules nothing.
C14_OneUnmutePerMember ==
    /\ [](\A m \in Members :
            /\ Cardinality(PendingUnmutes(m)) <= 1
            /\ m \in muted <=> PendingUnmutes(m) # {})
    /\ [][\A m \in Members, duration \in MuteDurations :
            m \in muted /\ mute(Slot, m, duration, FALSE) =>
               muted' = muted /\ tasks' = tasks
         ]_vars

\* ------------------------------------------------------------- C15
\* The step is a set command that was carried out: its confirmation is sent.
Confirms(calls, kind) == calls # <<>> /\ calls[1].kind = kind

NoStoreChanged == UNCHANGED <<welcome_configs, goodbye_configs, quotes>>

Rejections == {"MissingPermissions", "BadArgument"}

\* C15: setwelcome for guild g changes the welcome entry of g and nothing
\* else: no other guild's welcome entry, nothing of the goodbye store, nothing
\* of the quotes; setgoodbye likewise for the goodbye entry of g; and a show
\* command, a join or leave event, and a set command rejected for a missing
\* permission or a bad argument change no store.
C15_SetChangesOnlyItsEntry ==
    /\ [][Confirms(out', "welcome_set") =>
            /\ UNCHANGED <<goodbye_configs, quotes>>
            /\ \A g \in Guilds, c \in ChannelIds, t \in Templates :
                  setwelcome(g, c, t) =>
                     \A h \in Guilds \ {g} :
                        ~EntryChanged(welcome_configs, welcome_configs', h)
         ]_vars
    /\ [][Confirms(out', "goodbye_set") =>
            /\ UNCHANGED <<welcome_configs, quotes>>
            /\ \A g \in Guilds, c \in ChannelIds, t \in Templates :
                  setgoodbye(g, c, t) =>
                     \A h \in Guilds \ {g} :
                        ~EntryChanged(goodbye_configs, goodbye_configs', h)
         ]_vars
    /\ [][\A g \in Guilds : showwelcome(g) \/ showgoodbye(g) => NoStoreChanged]_vars
    /\ [][\A error \in Rejections :
            setwelcome_error(error) \/ setgoodbye_error(error) => NoStoreChanged
         ]_vars
    /\ [][(Notifies(out', "welcome") \/ Notifies(out', "goodbye") \/ out' = <<>>)
            => NoStoreChanged
         ]_vars

\* g1 has a welcome entry and g2 a different one, g1 has a goodbye entry, and
\* the last step was a set of g2's welcome entry.
C15_Witness ==
    /\ DOMAIN welcome_configs = Guilds
    /\ welcome_configs["g1"] # welcome_configs["g2"]
    /\ "g1" \in DOMAIN goodbye_configs
    /\ Confirms(out, "welcome_set")
    /\ out[1].channel = welcome_configs["g2"].channel_id
    /\ out[1].message = welcome_configs["g2"].message

====
